---- MODULE Spec2Model ----
(***************************************************************************)
(* OpenBlok frame transport: RedisStorageManager (modules/ob_storage.py)   *)
(* as a state machine over a Redis keyspace shared by concurrent clients.  *)
(*                                                                         *)
(* Every Redis command, and every MULTI/EXEC pipeline, is one atomic step; *)
(* a method that issues several of them (get_frame without an id,          *)
(* move_frame, add_metadata) is one action per command, with the client's  *)
(* position kept in pc and its locals in loc.                              *)
(***************************************************************************)
EXTENDS Integers, Sequences, FiniteSets, TLC

\* Number of uuids add_frame may draw in one run.
MaxFrames == 2

\* Number of move_frame calls in one run.
MaxMoves == 1

\* Number of add_metadata calls in one run.
MaxUpdates == 1

Stages == {"raw", "rotated"}

Clients == {"c1", "c2"}

\* The stage loops: rotation_correction and run_models, one process each.
Workers == {"rotation_correction", "run_models"}

\* The stage whose queue a stage loop pops.
StageInput(w) == IF w = "rotation_correction" THEN "raw" ELSE "roi"

\* Every process that holds a Redis connection.
Procs == Clients \cup Workers

\* The stages whose queues get_frame(stage) is called on.
Queues == Stages \cup {StageInput(w) : w \in Workers}

(***************************************************************************)
(* Python values                                                           *)
(***************************************************************************)
\* A dict is the sequence of its <<key, value>> items in insertion order.
DictKeys(d) == {d[i][1] : i \in 1..Len(d)}

DictHas(d, k) == k \in DictKeys(d)

DictGet(d, k) == d[CHOOSE i \in 1..Len(d) : d[i][1] = k][2]

\* d[k] = v: an existing key keeps its place, a new key goes last.
DictSet(d, k, v) ==
    IF DictHas(d, k)
    THEN [i \in 1..Len(d) |-> IF d[i][1] = k THEN <<k, v>> ELSE d[i]]
    ELSE Append(d, <<k, v>>)

\* json.dumps of a dict of strings, as the sequence of its tokens.
RECURSIVE JsonItems(_)
JsonItems(d) ==
    IF d = <<>> THEN <<>>
    ELSE <<Head(d)[1], ":", Head(d)[2]>>
         \o (IF Len(d) > 1 THEN <<",">> ELSE <<>>)
         \o JsonItems(Tail(d))

JsonDumps(d) == <<"{">> \o JsonItems(d) \o <<"}">>

\* The tokens between the braces parse as key : value , key : value ...
RECURSIVE JsonWellFormedItems(_)
JsonWellFormedItems(t) ==
    \/ t = <<>>
    \/ /\ Len(t) >= 3
       /\ t[2] = ":"
       /\ \/ Len(t) = 3
          \/ /\ Len(t) > 4
             /\ t[4] = ","
             /\ JsonWellFormedItems(SubSeq(t, 5, Len(t)))

JsonWellFormed(t) ==
    /\ Len(t) >= 2
    /\ t[1] = "{"
    /\ t[Len(t)] = "}"
    /\ JsonWellFormedItems(SubSeq(t, 2, Len(t) - 1))

RECURSIVE JsonParseItems(_, _)
JsonParseItems(t, d) ==
    IF Len(t) < 3 THEN d
    ELSE JsonParseItems(SubSeq(t, 5, Len(t)), DictSet(d, t[1], t[3]))

\* json.loads of a well-formed text: a repeated key keeps its last value.
JsonLoads(t) == JsonParseItems(SubSeq(t, 2, Len(t) - 1), <<>>)

(***************************************************************************)
(* Frames and the payload encoding                                         *)
(***************************************************************************)
\* A numpy uint8 array of shape (h, w, ch); data is tobytes(), row-major.
\* Byte i of the test frames is (fill + i) mod 256.
MkFrame(h, w, ch, fill) ==
    [h |-> h, w |-> w, ch |-> ch,
     data |-> [i \in 1..(h * w * ch) |-> (fill + i - 1) % 256]]

FrameA == MkFrame(2, 1, 3, 10)

FrameB == MkFrame(1, 2, 3, 252)

ValidFrames == {FrameA, FrameB}

\* Arrays add_frame accepts although they are not 3-channel: grayscale
\* and four-channel.
FrameGray == MkFrame(2, 1, 1, 30)

FrameRgba == MkFrame(1, 2, 4, 40)

\* struct.pack('>I', n)
PackU32(n) ==
    <<(n \div 16777216) % 256, (n \div 65536) % 256, (n \div 256) % 256, n % 256>>

\* struct.unpack('>I', b) of four bytes
UnpackU32(b) == b[1] * 16777216 + b[2] * 65536 + b[3] * 256 + b[4]

\* A header packed as width, height.
EncodeFrameSwapped(f) == PackU32(f.w) \o PackU32(f.h) \o f.data

\* shape + frame.tobytes()
EncodeFrame(f) == PackU32(f.h) \o PackU32(f.w) \o f.data

HeaderHeight(b) == UnpackU32(SubSeq(b, 1, 4))

HeaderWidth(b) == UnpackU32(SubSeq(b, 5, 8))

\* What decoding a stored "frame" value raises, or "ok".
DecodeOutcome(b) ==
    IF Len(b) < 8 THEN "struct.error"
    ELSE IF Len(b) - 8 < HeaderHeight(b) * HeaderWidth(b) * 3 THEN "ValueError"
    ELSE "ok"

\* np.frombuffer(b[8:], uint8, count=h*w*3).reshape(h, w, 3)
DecodeFrame(b) ==
    LET h == HeaderHeight(b)
        w == HeaderWidth(b)
    IN [h |-> h, w |-> w, ch |-> 3, data |-> SubSeq(b, 9, 8 + h * w * 3)]

(***************************************************************************)
(* Redis                                                                   *)
(***************************************************************************)
VARIABLES
    hashes,   \* key -> (field -> value), the keys holding a hash
    lists,    \* key -> non-empty sequence, the keys holding a list
    nextId,   \* number of the next uuid
    pc,       \* client -> position
    loc,      \* client -> locals of the call in progress
    last,     \* how the call ended, if the last step ended a get_frame or failed a move_frame
    orig,     \* uuid -> the arguments of the add_frame that drew it
    pushLog,  \* stage -> uuids in the order add_frame pushed them
    popLog,   \* stage -> uuids in the order blpop returned them
    okCount,  \* uuid -> successful get_frame returns, by kind of call
    moves,    \* number of move_frame calls so far
    updates   \* number of add_metadata calls so far

redisVars ==
    <<hashes, lists, nextId, pc, loc, last, orig, pushLog, popLog, okCount,
      moves, updates>>

\* f"{queue_name}:{frame_uuid}"
RecordKey(stage, id) == stage \o ":" \o id

\* f"{queue_name}_queue"
QueueKey(stage) == stage \o "_queue"

\* str(uuid.uuid4()): a value never drawn before
Uuid(n) == "u" \o ToString(n)

\* time.time() - time_start
Elapsed == "dt"

HExists(key) == key \in DOMAIN hashes

\* An HSET that is not applied.
HSetNothing(h, key, field, value) == h

\* HSET key field value on hash table h
HSet(h, key, field, value) ==
    LET old == IF key \in DOMAIN h THEN h[key] ELSE <<>>
        new == [f \in DOMAIN old \cup {field} |->
                    IF f = field THEN value ELSE old[f]]
    IN [k \in DOMAIN h \cup {key} |-> IF k = key THEN new ELSE h[k]]

\* HGETALL key
HGetAll(h, key) == IF key \in DOMAIN h THEN h[key] ELSE <<>>

\* DEL key
Del(h, key) == [k \in DOMAIN h \ {key} |-> h[k]]

\* A copy that leaves src in place.
RenameCopy(h, src, dst) ==
    [k \in DOMAIN h \cup {dst} |-> IF k = dst THEN h[src] ELSE h[k]]

\* RENAME src dst of an existing key: dst is overwritten
Rename(h, src, dst) ==
    [k \in (DOMAIN h \ {src}) \cup {dst} |-> IF k = dst THEN h[src] ELSE h[k]]

\* The list at key (a missing key is the empty list)
LRange(l, key) == IF key \in DOMAIN l THEN l[key] ELSE <<>>

\* A push at the head of the list.
RPushFront(l, key, value) ==
    [k \in DOMAIN l \cup {key} |->
        IF k = key THEN <<value>> \o LRange(l, key) ELSE l[k]]

\* RPUSH key value
RPush(l, key, value) ==
    [k \in DOMAIN l \cup {key} |->
        IF k = key THEN Append(LRange(l, key), value) ELSE l[k]]

\* A read of the head that leaves it in the list.
LPopKeep(l, key) == l

\* LPOP key of a non-empty list: a list emptied by the pop loses its key
LPop(l, key) ==
    IF Len(l[key]) = 1 THEN [k \in DOMAIN l \ {key} |-> l[k]]
    ELSE [l EXCEPT ![key] = Tail(l[key])]

(***************************************************************************)
(* Local storage: LocalStorageManager of one process                       *)
(***************************************************************************)
\* Number of LocalStorageManager() constructions in one run.
MaxConstructs == 2

\* Number of add_image calls in one run.
MaxImages == 2

\* Seconds the clock advances in one run.
MaxTicks == 2

VARIABLES
    instance,   \* cls._instance: 0 for None, else the number of the object
    obj,        \* attribute -> value of the instance (empty before __init__)
    files,      \* path -> size in bytes, the files under storage.local.path
    clock,      \* time.time(), in seconds
    enabled,    \* the configuration value storage.local.enabled
    printed,    \* what the last step printed
    objects,    \* number of objects super().__new__ has created
    writes,     \* path -> number of cv2.imwrite calls on it
    constructs, \* number of constructions so far
    images      \* number of add_image calls so far

localVars ==
    <<instance, obj, files, clock, enabled, printed, objects, writes,
      constructs, images>>

vars == <<redisVars, localVars>>

\* ob_system.get(['storage', 'local', 'path'])
StoragePath == "cache"

\* ob_system.get(['storage', 'local', 'maxSizeGB'])
MaxSizeGB == 1

BytesPerGB == 1024 * 1024 * 1024

\* Files of earlier sessions found under the path: one that fills the
\* capacity exactly, one that leaves a byte free.
OldFiles == {MaxSizeGB * BytesPerGB, MaxSizeGB * BytesPerGB - 1}

\* The default of add_image's frame_name: uuid.uuid4() evaluated once,
\* when the function is defined.
DefaultFrameName == "uuid0"

\* A name the caller passes: a value not passed before.
GivenFrameName(n) == "name" \o ToString(n)

\* os.path.join(self.path, self.session_id, str(frame_name) + '.png')
ImagePath(path, session, name) == path \o "/" \o session \o "/" \o name \o ".png"

\* os.path.getsize of the file cv2.imwrite wrote for a frame
PngSize(f) == f.h * f.w

\* The sum of the sizes of the files os.walk finds.
RECURSIVE SumSizes(_, _)
SumSizes(fs, paths) ==
    IF paths = {} THEN 0
    ELSE LET p == CHOOSE q \in paths : TRUE
         IN fs[p] + SumSizes(fs, paths \ {p})

\* A hasattr that never finds the attribute.
HasAttrNever(o, name) == FALSE

\* hasattr(self, name)
HasAttr(o, name) == name \in DOMAIN o

\* The attributes __init__ sets, calculate_current_size included.
InitAttrs(now, fs) ==
    [current_size |-> 0 + SumSizes(fs, DOMAIN fs),
     session_id |-> ToString(now),
     path |-> StoragePath,
     max_size_gb |-> MaxSizeGB,
     max_size_bytes |-> MaxSizeGB * BytesPerGB]

LocalInit ==
    /\ instance = 0
    /\ obj = <<>>
    /\ files = <<>>
    /\ clock = 0
    /\ enabled = TRUE
    /\ printed = ""
    /\ objects = 0
    /\ writes = <<>>
    /\ constructs = 0
    /\ images = 0

\* LocalStorageManager(): __new__ then __init__.
Construct ==
    /\ constructs < MaxConstructs
    /\ constructs' = constructs + 1
    /\ IF instance = 0
       THEN /\ instance' = objects + 1
            /\ objects' = objects + 1
       ELSE UNCHANGED <<instance, objects>>
    /\ obj' = IF HasAttr(obj, "current_size") THEN obj ELSE InitAttrs(clock, files)
    /\ printed' = ""
    /\ UNCHANGED <<files, clock, enabled, writes, images>>
    /\ UNCHANGED redisVars

\* A test that also lets a full cache through.
HasRoomAtCapacity(size, max) == size <= max

\* self.current_size < self.max_size_bytes
HasRoom(size, max) == size < max

\* add_image(frame, frame_name) on the constructed instance.
AddImage(f, name) ==
    LET path == ImagePath(obj.path, obj.session_id, name)
    IN /\ instance # 0
       /\ images < MaxImages
       /\ images' = images + 1
       /\ IF ~enabled
          THEN /\ printed' = ""
               /\ UNCHANGED <<obj, files, writes>>
          ELSE IF HasRoom(obj.current_size, obj.max_size_bytes)
          THEN /\ files' = [q \in DOMAIN files \cup {path} |->
                              IF q = path THEN PngSize(f) ELSE files[q]]
               /\ obj' = [obj EXCEPT !.current_size = @ + files'[path]]
               /\ writes' = [q \in DOMAIN writes \cup {path} |->
                               IF q = path
                               THEN (IF q \in DOMAIN writes THEN writes[q] ELSE 0) + 1
                               ELSE writes[q]]
               /\ printed' = ""
          ELSE /\ printed' = "WARNING | Local storage is full. Can't save image."
               /\ UNCHANGED <<obj, files, writes>>
       /\ UNCHANGED <<instance, clock, enabled, objects, constructs>>
       /\ UNCHANGED redisVars

\* add_image(frame): frame_name left to its default.
AddImageDefault(f) == AddImage(f, DefaultFrameName)

\* add_image(frame, frame_name) with a name of the caller's.
AddImageNamed(f) == AddImage(f, GivenFrameName(images))

\* A second passes.
Tick ==
    /\ clock < MaxTicks
    /\ clock' = clock + 1
    /\ printed' = ""
    /\ UNCHANGED <<instance, obj, files, enabled, objects, writes, constructs, images>>
    /\ UNCHANGED redisVars

\* Before the process starts: the configuration disables local caching.
Disable ==
    /\ constructs = 0
    /\ enabled
    /\ enabled' = FALSE
    /\ printed' = ""
    /\ UNCHANGED <<instance, obj, files, clock, objects, writes, constructs, images>>
    /\ UNCHANGED redisVars

\* Before the process starts: an earlier session left a file under the path.
OldSession(size) ==
    /\ constructs = 0
    /\ files = <<>>
    /\ files' = [q \in {ImagePath(StoragePath, "old", "img")} |-> size]
    /\ printed' = ""
    /\ UNCHANGED <<instance, obj, clock, enabled, objects, writes, constructs, images>>
    /\ UNCHANGED redisVars

\* The images the process saves.
LocalFrames == {FrameA, MkFrame(1, 1, 3, 7)}

NextLocal ==
    \/ Construct
    \/ \E f \in LocalFrames : AddImageDefault(f)
    \/ \E f \in LocalFrames : AddImageNamed(f)
    \/ Tick
    \/ Disable
    \/ \E size \in OldFiles : OldSession(size)

(***************************************************************************)
(* Clients                                                                 *)
(***************************************************************************)
NoLoc == [stage |-> "", new |-> "", id |-> "", del |-> FALSE, md |-> <<>>]

NoRet == [frame |-> <<>>, metadata |-> <<>>]

\* The end of a get_frame call: its arguments (kind tells whether the id
\* was popped or given), what hgetall returned (raw) and what the call
\* returned (ret) or raised (outcome). Kind "move" is the end of a
\* move_frame call that rename's error cut short.
Ended(kind, stage, id, del, outcome, raw, ret) ==
    [kind |-> kind, stage |-> stage, id |-> id, del |-> del,
     outcome |-> outcome, raw |-> raw, ret |-> ret]

\* The last step did not end a get_frame call.
NoCall == Ended("none", "", "", FALSE, "", <<>>, NoRet)

Init ==
    /\ hashes = <<>>
    /\ lists = <<>>
    /\ nextId = 1
    /\ pc = [c \in Procs |-> "idle"]
    /\ loc = [c \in Procs |-> NoLoc]
    /\ last = NoCall
    /\ orig = <<>>
    /\ pushLog = [s \in Queues |-> <<>>]
    /\ popLog = [s \in Queues |-> <<>>]
    /\ okCount = <<>>
    /\ moves = 0
    /\ updates = 0
    /\ LocalInit

\* Caller metadata handed to add_frame.
MetaNone == <<>>

\* Metadata as a stage hands it on: a field of its own and the fields an
\* earlier add_frame("raw", ...) and get_frame left in it.
MetaCam == << <<"cam", "a">>, <<"rawUUID", "zz">>, <<"get_frame_time", "t0">> >>

\* The (frame, metadata) arguments of the add_frame calls.
AddFrameArgs ==
    {<<FrameA, MetaNone>>, <<FrameB, MetaCam>>,
     <<FrameGray, MetaNone>>, <<FrameRgba, MetaNone>>}

\* add_frame(queue_name, frame, metadata): one MULTI/EXEC pipeline.
AddFrame(c, s, f, m) ==
    LET uuid == Uuid(nextId)
        md == DictSet(m, s \o "UUID", uuid)
        key == RecordKey(s, uuid)
        h1 == HSet(hashes, key, "frame", EncodeFrame(f))
        h2 == HSet(h1, key, "metadata", JsonDumps(md))
        h3 == HSet(h2, key, "add_frame_time", Elapsed)
    IN /\ pc[c] = "idle"
       /\ nextId <= MaxFrames
       /\ hashes' = h3
       /\ lists' = RPush(lists, QueueKey(s), uuid)
       /\ nextId' = nextId + 1
       /\ orig' = [i \in DOMAIN orig \cup {uuid} |->
                     IF i = uuid THEN [stage |-> s, frame |-> f, meta |-> m]
                     ELSE orig[i]]
       /\ okCount' = [i \in DOMAIN okCount \cup {uuid} |->
                        IF i = uuid THEN [pop |-> 0, byid |-> 0] ELSE okCount[i]]
       /\ pushLog' = [pushLog EXCEPT ![s] = Append(@, uuid)]
       /\ last' = NoCall
       /\ UNCHANGED <<pc, loc, popLog, moves, updates>>
       /\ UNCHANGED localVars

\* get_frame(queue_name, delete_frame) without an id, first command: blpop
\* finds an entry and takes the head of the list.
GetFramePop(c, s, del) ==
    /\ pc[c] = "idle"
    /\ QueueKey(s) \in DOMAIN lists
    /\ LET id == Head(lists[QueueKey(s)])
       IN /\ lists' = LPop(lists, QueueKey(s))
          /\ pc' = [pc EXCEPT ![c] = "gf_read"]
          /\ loc' = [loc EXCEPT ![c] = [NoLoc EXCEPT !.stage = s, !.id = id, !.del = del]]
          /\ popLog' = [popLog EXCEPT ![s] = Append(@, id)]
    /\ last' = NoCall
    /\ UNCHANGED <<hashes, nextId, orig, pushLog, okCount, moves, updates>>
    /\ UNCHANGED localVars

\* What get_frame raises when blpop returns None: None[1].
TimeoutOutcome == "TypeError"

\* get_frame without an id, the list empty for the whole timeout.
GetFrameTimeout(c, s) ==
    /\ pc[c] = "idle"
    /\ QueueKey(s) \notin DOMAIN lists
    /\ last' = Ended("pop", s, "", TRUE, TimeoutOutcome, <<>>, NoRet)
    /\ UNCHANGED <<hashes, lists, nextId, pc, loc, orig, pushLog, popLog,
                   okCount, moves, updates>>
    /\ UNCHANGED localVars

\* What get_frame does with the fields hgetall returned: the first
\* exception of lines 144-152, or "ok".
ReadOutcome(raw) ==
    IF "frame" \notin DOMAIN raw THEN "KeyError"
    ELSE IF DecodeOutcome(raw["frame"]) # "ok" THEN DecodeOutcome(raw["frame"])
    ELSE IF "metadata" \notin DOMAIN raw THEN "KeyError"
    ELSE IF ~JsonWellFormed(raw["metadata"]) THEN "JSONDecodeError"
    ELSE "ok"

\* The frame_object get_frame returns.
ReadResult(raw) ==
    [frame |-> DecodeFrame(raw["frame"]),
     metadata |-> DictSet(JsonLoads(raw["metadata"]), "get_frame_time", Elapsed)]

\* A pipeline whose delete is not applied.
AfterReadKeep(h, key, del) == h

\* The hash table after get_frame's pipeline.
AfterRead(h, key, del) == IF del THEN Del(h, key) ELSE h

\* The pipeline of get_frame: hgetall and, with delete_frame, delete, as
\* one MULTI/EXEC; then the decoding of what hgetall returned.
ReadRecord(c, s, id, del, kind) ==
    LET key == RecordKey(s, id)
        raw == HGetAll(hashes, key)
        outcome == ReadOutcome(raw)
    IN /\ hashes' = AfterRead(hashes, key, del)
       /\ last' = Ended(kind, s, id, del, outcome, raw,
                        IF outcome = "ok" THEN ReadResult(raw) ELSE NoRet)
       /\ okCount' =
            IF outcome = "ok" /\ id \in DOMAIN okCount /\ (kind = "pop" \/ del)
            THEN [okCount EXCEPT ![id][kind] = @ + 1]
            ELSE okCount

\* get_frame without an id, second command.
GetFrameRead(c) ==
    /\ pc[c] = "gf_read"
    /\ ReadRecord(c, loc[c].stage, loc[c].id, loc[c].del, "pop")
    /\ pc' = [pc EXCEPT ![c] = "idle"]
    /\ loc' = [loc EXCEPT ![c] = NoLoc]
    /\ UNCHANGED <<lists, nextId, orig, pushLog, popLog, moves, updates>>
    /\ UNCHANGED localVars

\* get_frame(queue_name, delete_frame, frame_uuid) with an id.
GetFrameById(c, s, id, del) ==
    /\ pc[c] = "idle"
    /\ ReadRecord(c, s, id, del, "byid")
    /\ UNCHANGED <<lists, nextId, pc, loc, orig, pushLog, popLog, moves, updates>>
    /\ UNCHANGED localVars

\* Metadata handed to add_metadata.
Updates == { << <<"side", "s1">>, <<"frame", <<0, 0, 0>> >> >> }

\* One hset of add_metadata's loop.
HSetItem(c, s, id, md) ==
    /\ hashes' = HSet(hashes, RecordKey(s, id), Head(md)[1], Head(md)[2])
    /\ IF Len(md) > 1
       THEN /\ pc' = [pc EXCEPT ![c] = "am_loop"]
            /\ loc' = [loc EXCEPT ![c] = [NoLoc EXCEPT !.stage = s, !.id = id, !.md = Tail(md)]]
       ELSE /\ pc' = [pc EXCEPT ![c] = "idle"]
            /\ loc' = [loc EXCEPT ![c] = NoLoc]
    /\ last' = NoCall
    /\ UNCHANGED <<lists, nextId, orig, pushLog, popLog, okCount, moves>>
    /\ UNCHANGED localVars

\* add_metadata(queue_name, frame_uuid, metadata): the first item.
AddMetadata(c, s, id, md) ==
    /\ pc[c] = "idle"
    /\ updates < MaxUpdates
    /\ updates' = updates + 1
    /\ HSetItem(c, s, id, md)

\* add_metadata: a later item.
AddMetadataNext(c) ==
    /\ pc[c] = "am_loop"
    /\ HSetItem(c, loc[c].stage, loc[c].id, loc[c].md)
    /\ UNCHANGED updates

\* The list key move_frame pushes to.
MoveQueueKey(new) == new

\* What RENAME src dst answers: an error when src does not exist.
RenameOutcome(h, src) == IF src \in DOMAIN h THEN "ok" ELSE "ResponseError"

\* A move_frame that goes on to its rpush whatever rename answered.
MoveFrameRenameUnchecked(c, s, new, id) ==
    /\ pc[c] = "idle"
    /\ moves < MaxMoves
    /\ s # new
    /\ hashes' = IF HExists(RecordKey(s, id))
                 THEN Rename(hashes, RecordKey(s, id), RecordKey(new, id))
                 ELSE hashes
    /\ pc' = [pc EXCEPT ![c] = "mv_push"]
    /\ loc' = [loc EXCEPT ![c] = [NoLoc EXCEPT !.stage = s, !.new = new, !.id = id]]
    /\ moves' = moves + 1
    /\ last' = NoCall
    /\ UNCHANGED <<lists, nextId, orig, pushLog, popLog, okCount, updates>>
    /\ UNCHANGED localVars

\* move_frame(queue_name, new_queue_name, frame_uuid), first command: when
\* the source key does not exist rename raises ResponseError, which ends the
\* call before its rpush.
MoveFrameRename(c, s, new, id) ==
    /\ pc[c] = "idle"
    /\ moves < MaxMoves
    /\ s # new
    /\ IF RenameOutcome(hashes, RecordKey(s, id)) = "ok"
       THEN /\ hashes' = Rename(hashes, RecordKey(s, id), RecordKey(new, id))
            /\ pc' = [pc EXCEPT ![c] = "mv_push"]
            /\ loc' = [loc EXCEPT ![c] = [NoLoc EXCEPT !.stage = s, !.new = new, !.id = id]]
            /\ last' = NoCall
       ELSE /\ UNCHANGED <<hashes, pc, loc>>
            /\ last' = Ended("move", s, id, FALSE,
                             RenameOutcome(hashes, RecordKey(s, id)), <<>>, NoRet)
    /\ moves' = moves + 1
    /\ UNCHANGED <<lists, nextId, orig, pushLog, popLog, okCount, updates>>
    /\ UNCHANGED localVars

\* move_frame, second command: rpush.
MoveFramePush(c) ==
    /\ pc[c] = "mv_push"
    /\ lists' = RPush(lists, MoveQueueKey(loc[c].new), loc[c].id)
    /\ pc' = [pc EXCEPT ![c] = "idle"]
    /\ loc' = [loc EXCEPT ![c] = NoLoc]
    /\ last' = NoCall
    /\ UNCHANGED <<hashes, nextId, orig, pushLog, popLog, okCount, moves, updates>>
    /\ UNCHANGED localVars

\* delete_frame(queue_name, frame_uuid)
DeleteFrame(c, s, id) ==
    /\ pc[c] = "idle"
    /\ hashes' = Del(hashes, RecordKey(s, id))
    /\ last' = NoCall
    /\ UNCHANGED <<lists, nextId, pc, loc, orig, pushLog, popLog, okCount,
                   moves, updates>>
    /\ UNCHANGED localVars

\* The uuids a caller can hold: those add_frame has returned.
Drawn == DOMAIN orig

\* All operations, by any client in any order, on frames of one content.
Next ==
    \E c \in Clients :
        \/ \E s \in Stages : AddFrame(c, s, FrameA, MetaNone)
        \/ \E s \in Stages : GetFramePop(c, s, TRUE)
        \/ \E s \in Stages : GetFrameTimeout(c, s)
        \/ GetFrameRead(c)
        \/ \E s \in Stages, id \in Drawn, del \in BOOLEAN : GetFrameById(c, s, id, del)
        \/ \E s \in Stages, id \in Drawn, md \in Updates : AddMetadata(c, s, id, md)
        \/ AddMetadataNext(c)
        \/ \E s \in Stages, new \in Stages, id \in Drawn : MoveFrameRename(c, s, new, id)
        \/ MoveFramePush(c)
        \/ \E s \in Stages, id \in Drawn : DeleteFrame(c, s, id)

Spec == Init /\ [][Next]_vars

\* Producers calling add_frame and consumers calling get_frame(stage), and
\* nothing else, on frames and metadata of every kind.
NextPC ==
    \E c \in Clients :
        \/ \E s \in Stages, a \in AddFrameArgs : AddFrame(c, s, a[1], a[2])
        \/ \E s \in Stages : GetFramePop(c, s, TRUE)
        \/ \E s \in Stages : GetFrameTimeout(c, s)
        \/ GetFrameRead(c)

SpecPC == Init /\ [][NextPC]_vars

\* The operations that address a record by its key: add_frame, get_frame
\* with an id, move_frame and delete_frame, on frames of one content.
NextRecord ==
    \E c \in Clients :
        \/ \E s \in Stages : AddFrame(c, s, FrameA, MetaNone)
        \/ \E s \in Stages, id \in Drawn, del \in BOOLEAN : GetFrameById(c, s, id, del)
        \/ \E s \in Stages, new \in Stages, id \in Drawn : MoveFrameRename(c, s, new, id)
        \/ MoveFramePush(c)
        \/ \E s \in Stages, id \in Drawn : DeleteFrame(c, s, id)

SpecRecord == Init /\ [][NextRecord]_vars

\* The key of frame_object a stage loop reads to hand the frame on:
\* frame_object['timestamp'] in rotation_correction,
\* next_ready_frame['source_frame'] in run_models.
HandOnKey(w) == IF w = "rotation_correction" THEN "timestamp" ELSE "source_frame"

\* What reading that key of the frame_object get_frame returned does.
HandOnOutcome(w, ret) == IF HandOnKey(w) \in DOMAIN ret THEN "ok" ELSE "KeyError"

\* Where a stage loop is after a statement of its body: an exception is
\* caught nowhere, so it ends the loop and the process.
LoopAfter(outcome, then) == IF outcome = "ok" THEN then ELSE "dead"

\* A stage loop calls get_frame(stage): blpop finds an entry.
StageGet(w) == GetFramePop(w, StageInput(w), TRUE)

\* A stage loop calls get_frame(stage): the list stays empty for the whole
\* timeout.
StageTimeout(w) ==
    /\ pc[w] = "idle"
    /\ QueueKey(StageInput(w)) \notin DOMAIN lists
    /\ last' = Ended("pop", StageInput(w), "", TRUE, TimeoutOutcome, <<>>, NoRet)
    /\ pc' = [pc EXCEPT ![w] = LoopAfter(TimeoutOutcome, "idle")]
    /\ UNCHANGED <<hashes, lists, nextId, loc, orig, pushLog, popLog, okCount,
                   moves, updates>>
    /\ UNCHANGED localVars

\* The rest of get_frame and the loop body up to the key it reads from
\* frame_object; with the key read, the loop is at its hand-on calls
\* (add_frame in rotation_correction, move_frame in run_models).
StageRead(w) ==
    /\ pc[w] = "gf_read"
    /\ ReadRecord(w, loc[w].stage, loc[w].id, loc[w].del, "pop")
    /\ LET raw == HGetAll(hashes, RecordKey(loc[w].stage, loc[w].id))
           got == ReadOutcome(raw)
           read == IF got = "ok" THEN HandOnOutcome(w, ReadResult(raw)) ELSE got
       IN pc' = [pc EXCEPT ![w] = LoopAfter(read, "hand_on")]
    /\ loc' = [loc EXCEPT ![w] = NoLoc]
    /\ UNCHANGED <<lists, nextId, orig, pushLog, popLog, moves, updates>>
    /\ UNCHANGED localVars

\* The steps of one stage loop.
StageNext(w) == StageGet(w) \/ StageTimeout(w) \/ StageRead(w)

\* The two stage loops, fed by producers that add valid frames to their
\* input stages.
NextStages ==
    \/ \E c \in Clients, w \in Workers, a \in AddFrameArgs :
           a[1] \in ValidFrames /\ AddFrame(c, StageInput(w), a[1], a[2])
    \/ \E w \in Workers : StageGet(w)
    \/ \E w \in Workers : StageTimeout(w)
    \/ \E w \in Workers : StageRead(w)

\* A stage loop that can take a step does take one: each is a process of
\* its own.
SpecStages ==
    Init /\ [][NextStages]_vars /\ \A w \in Workers : WF_vars(StageNext(w))

\* One process constructing LocalStorageManager and saving images.
SpecLocal == Init /\ [][NextLocal]_vars

(***************************************************************************)
(* Claims                                                                  *)
(***************************************************************************)
\* Occurrences of x in sequence q.
Count(x, q) == Cardinality({i \in 1..Len(q) : q[i] = x})

\* The stage queue get_frame(stage) pops from.
Queue(s) == LRange(lists, QueueKey(s))

\* C1: the rpush that ends move_frame(A, B, id) appends id to the tail of
\* the list "B_queue", the list get_frame(B) pops from.
C1_MovePushesStageQueue ==
    [][\A c \in Clients :
          (pc[c] = "mv_push" /\ pc'[c] = "idle")
          => LRange(lists', QueueKey(loc[c].new))
             = Append(LRange(lists, QueueKey(loc[c].new)), loc[c].id)]_vars

\* C2: with producers and consumers only, every uuid add_frame pushed is
\* either still in its stage queue or was handed by blpop to one consumer,
\* once; no uuid is returned by two get_frame calls; and a uuid handed to a
\* consumer is being read by it or, its frame being a valid one, was
\* returned by its get_frame.
C2_ExactlyOneConsumer ==
    \A id \in Drawn :
        LET s == orig[id].stage
            popped == Count(id, popLog[s])
            held == Cardinality({c \in Clients : pc[c] = "gf_read" /\ loc[c].id = id})
        IN /\ Count(id, Queue(s)) + popped = 1
           /\ okCount[id].pop <= 1
           /\ held + okCount[id].pop <= popped
           /\ orig[id].frame \in ValidFrames => held + okCount[id].pop = popped

\* Two consumers each hold a uuid popped from the same stage queue.
C2_Witness ==
    \E s \in Stages :
        /\ pc["c1"] = "gf_read" /\ pc["c2"] = "gf_read"
        /\ loc["c1"].stage = s /\ loc["c2"].stage = s
        /\ loc["c1"].id # loc["c2"].id

\* C3: per stage, blpop hands out the uuids in the order the add_frame
\* calls pushed them: what was popped so far, followed by what the queue
\* still holds, is the sequence of pushes.
C3_Fifo == \A s \in Stages : pushLog[s] = popLog[s] \o Queue(s)

\* Two frames were added to one stage and both were popped.
C3_Witness == \E s \in Stages : Len(pushLog[s]) = 2 /\ Len(popLog[s]) = 2

\* C4: every uuid in a stage's queue has a record under that stage.
C4_QueuedIdsHaveRecords ==
    \A s \in Stages : \A i \in 1..Len(Queue(s)) : HExists(RecordKey(s, Queue(s)[i]))

\* A readable record: get_frame on these fields returns a frame.
Readable(raw) == ReadOutcome(raw) = "ok"

\* C5: of the get_frame(stage, id, delete=True) calls on one record at
\* most one returns it; such a call returns what it read when the record
\* was readable, raises KeyError when there was none, and leaves no record
\* under the key.
C5_ReadDeleteExclusive ==
    /\ \A id \in Drawn : okCount[id].byid <= 1
    /\ (last.kind = "byid" /\ last.del)
       => /\ ~HExists(RecordKey(last.stage, last.id))
          /\ last.raw = <<>> => last.outcome = "KeyError"
          /\ Readable(last.raw) => (last.outcome = "ok" /\ last.ret = ReadResult(last.raw))

\* A second get_frame(stage, id, delete=True) has just failed with KeyError
\* on a record that an earlier one returned.
C5_Witness ==
    /\ last.kind = "byid" /\ last.del
    /\ last.outcome = "KeyError"
    /\ last.id \in Drawn
    /\ okCount[last.id].byid = 1
    /\ last.stage = orig[last.id].stage

\* C6: the rename of move_frame(A, B, id) on an existing record is one
\* step, before which the record is under A and after which it is under B
\* and not under A, with the same fields: get_frame(A, id) then raises
\* KeyError and get_frame(B, id) returns what get_frame(A, id) would have
\* returned before; no other record changes.
C6_MoveRelocates ==
    [][\A c \in Clients :
          (pc[c] = "idle" /\ pc'[c] = "mv_push")
          => LET a == RecordKey(loc'[c].stage, loc'[c].id)
                 b == RecordKey(loc'[c].new, loc'[c].id)
             IN /\ a \in DOMAIN hashes
                /\ a \notin DOMAIN hashes'
                /\ b \in DOMAIN hashes'
                /\ hashes'[b] = hashes[a]
                /\ ReadOutcome(HGetAll(hashes', a)) = "KeyError"
                /\ ReadOutcome(HGetAll(hashes', b)) = ReadOutcome(HGetAll(hashes, a))
                /\ \A k \in DOMAIN hashes' \ {b} : k \in DOMAIN hashes /\ hashes'[k] = hashes[k]
                /\ DOMAIN hashes \ {a, b} \subseteq DOMAIN hashes']_vars

\* A move has renamed a readable record: it is under the new stage and not
\* under the old one.
C6_Witness ==
    \E c \in Clients :
        /\ pc[c] = "mv_push"
        /\ ~HExists(RecordKey(loc[c].stage, loc[c].id))
        /\ HExists(RecordKey(loc[c].new, loc[c].id))
        /\ Readable(hashes[RecordKey(loc[c].new, loc[c].id)])

\* The three fields add_frame writes.
FullRecord(id) ==
    LET key == RecordKey(orig[id].stage, id)
    IN /\ HExists(key)
       /\ {"frame", "metadata", "add_frame_time"} \subseteq DOMAIN hashes[key]
       /\ hashes[key]["frame"] = EncodeFrame(orig[id].frame)

\* C7: with producers and consumers only, every uuid that is in a stage
\* queue, or that a consumer has popped and not yet read, has its record
\* with all the fields add_frame writes; and the read of a popped uuid
\* whose frame is a valid one returns a frame.
C7_RecordBeforePush ==
    /\ \A s \in Stages : \A i \in 1..Len(Queue(s)) : FullRecord(Queue(s)[i])
    /\ \A c \in Clients : pc[c] = "gf_read" => FullRecord(loc[c].id)
    /\ (last.kind = "pop" /\ last.id # "" /\ orig[last.id].frame \in ValidFrames)
       => last.outcome = "ok"

\* A consumer has popped a uuid while a producer's later frame is queued.
C7_Witness ==
    \E c \in Clients, s \in Stages :
        /\ pc[c] = "gf_read"
        /\ loc[c].stage = s
        /\ Queue(s) # <<>>

\* The end of a get_frame(stage) call whose blpop found nothing.
TimedOut == last.kind = "pop" /\ last.id = ""

\* C8: a get_frame(stage) whose blpop times out ends with a dedicated
\* no-frame-available outcome.
C8_TimeoutIsDedicated == TimedOut => last.outcome \in {"Timeout", "QueueEmpty"}

\* The end of a get_frame(stage) call that popped the uuid of a valid frame.
PoppedValid ==
    /\ last.kind = "pop"
    /\ last.id # ""
    /\ orig[last.id].frame \in ValidFrames

\* The frame returned is the frame added.
SameFrame(f, g) == f.h = g.h /\ f.w = g.w /\ f.data = g.data /\ g.ch = 3

\* C9 as stated: get_frame(stage) returns the frame as it was added, and
\* metadata holding every pair of the caller's metadata and the pair
\* "<stage>UUID" = uuid.
C9_RoundTripAllPairs ==
    PoppedValid
    => /\ last.outcome = "ok"
       /\ SameFrame(orig[last.id].frame, last.ret.frame)
       /\ <<last.stage \o "UUID", last.id>> \in
              {last.ret.metadata[i] : i \in 1..Len(last.ret.metadata)}
       /\ \A i \in 1..Len(orig[last.id].meta) :
              orig[last.id].meta[i] \in
                  {last.ret.metadata[j] : j \in 1..Len(last.ret.metadata)}

\* The keys add_frame and get_frame set themselves.
ReservedKeys(s) == {s \o "UUID", "get_frame_time"}

\* C9 as amended: get_frame(stage) returns the frame as it was added, and
\* metadata holding the pair "<stage>UUID" = uuid and every pair of the
\* caller's metadata whose key is neither "<stage>UUID" nor
\* "get_frame_time".
C9_RoundTrip ==
    PoppedValid
    => /\ last.outcome = "ok"
       /\ SameFrame(orig[last.id].frame, last.ret.frame)
       /\ <<last.stage \o "UUID", last.id>> \in
              {last.ret.metadata[i] : i \in 1..Len(last.ret.metadata)}
       /\ \A i \in 1..Len(orig[last.id].meta) :
              orig[last.id].meta[i][1] \notin ReservedKeys(last.stage)
              => orig[last.id].meta[i] \in
                     {last.ret.metadata[j] : j \in 1..Len(last.ret.metadata)}

\* get_frame("rotated") has returned a frame added with metadata of three
\* pairs, two of them under keys that are not reserved.
C9_Witness ==
    /\ PoppedValid
    /\ last.stage = "rotated"
    /\ orig[last.id].meta = MetaCam
    /\ last.outcome = "ok"

\* The stored payload is not a header followed by height*width*3 bytes.
Malformed(b) ==
    \/ Len(b) < 8
    \/ Len(b) - 8 # HeaderHeight(b) * HeaderWidth(b) * 3

\* C10: get_frame on a record whose payload is shorter than the header or
\* whose byte count differs from the declared height*width*3 raises.
C10_MalformedPayloadFails ==
    (last.kind # "none" /\ "frame" \in DOMAIN last.raw /\ Malformed(last.raw["frame"]))
    => last.outcome # "ok"

\* C11: a move_frame(A, B, id) call either finds the record A:id and
\* renames it, or, finding none, ends with rename's ResponseError having
\* changed no record and no list, without going on to its rpush.
C11_MoveMissingFails ==
    [][moves' # moves
       => \/ \E c \in Clients :
                /\ pc[c] = "idle" /\ pc'[c] = "mv_push"
                /\ HExists(RecordKey(loc'[c].stage, loc'[c].id))
          \/ /\ last'.kind = "move"
             /\ ~HExists(RecordKey(last'.stage, last'.id))
             /\ last'.outcome = "ResponseError"
             /\ hashes' = hashes
             /\ lists' = lists
             /\ pc' = pc]_vars

\* A move_frame on an id whose record was deleted has just failed.
C11_Witness ==
    /\ last.kind = "move"
    /\ last.id \in Drawn
    /\ last.stage = orig[last.id].stage
    /\ last.outcome = "ResponseError"

\* C12: no hset of an add_metadata call changes a list or the "frame"
\* field of a record.
C12_AddMetadataKeepsPayload ==
    [][(\/ updates' # updates
        \/ \E c \in Clients : pc[c] = "am_loop" /\ pc'[c] = "idle")
       => /\ lists' = lists
          /\ \A k \in DOMAIN hashes :
                "frame" \in DOMAIN hashes[k]
                => /\ k \in DOMAIN hashes'
                   /\ "frame" \in DOMAIN hashes'[k]
                   /\ hashes'[k]["frame"] = hashes[k]["frame"]]_vars

\* C13: add_frame stores nothing for a frame that is not 3-channel: no
\* uuid it has drawn belongs to such a frame.
C13_NonRgbRejected == \A id \in Drawn : orig[id].frame.ch = 3

\* The fields add_frame writes on a record.
AddFrameFields == {"frame", "metadata", "add_frame_time"}

\* C15: get_frame(stage, id) returns, in its metadata, every field that
\* add_metadata has put on the record.
C15_AddedMetadataReturned ==
    (last.kind = "byid" /\ last.outcome = "ok")
    => \A k \in DOMAIN last.raw \ AddFrameFields :
           DictHas(last.ret.metadata, k) /\ DictGet(last.ret.metadata, k) = last.raw[k]

\* C16: every record holds its payload and its initial metadata.
C16_RecordsComplete ==
    \A key \in DOMAIN hashes : {"frame", "metadata"} \subseteq DOMAIN hashes[key]

\* C14: an add_image call made with local caching enabled while
\* current_size is at or above max_size_bytes writes no file and leaves
\* current_size, like every other attribute, as it was.
C14_FullCacheDrops ==
    [][(images' # images /\ enabled /\ obj.current_size >= obj.max_size_bytes)
       => /\ files' = files
          /\ writes' = writes
          /\ obj' = obj]_vars

\* add_image has just dropped a frame: the cache is enabled and full.
C14_Witness ==
    /\ images > 0
    /\ enabled
    /\ printed # ""
    /\ obj.current_size >= obj.max_size_bytes

\* C19: a construction after the first yields the instance the first one
\* created and leaves every attribute (session_id, path, capacity,
\* current_size) as it was; only one object is ever created.
C19_InitOnce ==
    [][(constructs' # constructs /\ constructs >= 1)
       => /\ instance' = instance
          /\ objects' = 1
          /\ obj' = obj]_vars

\* The instance was constructed a second time, after the clock had moved
\* on from the session's second and an image had been saved.
C19_Witness ==
    /\ constructs = 2
    /\ obj.session_id # ToString(clock)
    /\ obj.current_size > 0
    /\ images > 0

\* C20: no file path is written by more than one add_image call.
C20_WriteOnce == \A q \in DOMAIN writes : writes[q] <= 1

\* C17: a stage loop whose get_frame times out is at the top of its loop
\* again, about to call get_frame.
C17_StageSurvivesTimeout ==
    [][\A w \in Workers : (pc[w] = "idle" /\ TimedOut') => pc'[w] = "idle"]_vars

\* A record and a queue entry in the stage a loop hands its frames to:
\* "rotated" for rotation_correction, and for run_models the source record
\* under "predicted".
HandedOn(w) ==
    IF w = "rotation_correction"
    THEN /\ \E n \in 1..nextId : HExists(RecordKey("rotated", Uuid(n)))
         /\ LRange(lists, QueueKey("rotated")) # <<>>
    ELSE \E n \in 1..nextId : HExists(RecordKey("predicted", Uuid(n)))

\* C18: every frame a stage loop dequeues from its input stage is
\* eventually handed to the next stage.
C18_FramesHandedOn ==
    \A w \in Workers : (pc[w] = "gf_read") ~> HandedOn(w)

====
